---------------------------- MODULE Spec2Model ----------------------------
(***************************************************************************)
(* Model of core/node/groups.go of go-ipfs: the functions that assemble    *)
(* the fx option tree of a node (LibP2P, Storage, Identity, Providers,     *)
(* Online, Offline, Networked, IPFS) and the build of that tree.           *)
(*                                                                         *)
(* An fx.Option is modelled by what it contributes once flattened: the     *)
(* sequence of its construction units (fx.Provide / fx.Invoke) and errors  *)
(* (fx.Error), in the order of the option tree; fx.Options is \o.          *)
(* Strings that the code parses (durations) are sequences of characters;   *)
(* a duration is a number of milliseconds.                                 *)
(***************************************************************************)
EXTENDS Integers, Sequences, FiniteSets, TLC

\* ------------------------------------------------------------------ bounds
\* A build input differs from the default input in at most this many fields.
MaxDeviations == 2
\* Number of times IPFS() is called in one process.
MaxBuilds == 2
\* Number of release steps that may fail during one teardown.
MaxTeardownFaults == 1

\* ------------------------------------------------------- program constants
Millisecond == 1
Second == 1000
Minute == 60000
Hour == 3600000
DefaultConnMgrHighWater == 900
DefaultConnMgrLowWater == 600
DefaultConnMgrGracePeriod == 20000
DefaultIpnsCacheSize == 128
kReprovideFrequency == 43200000

\* ------------------------------------------------------------------ state
VARIABLES
    bcfgArg,          \* the *BuildCfg passed to IPFS: [nil, bcfg]
    repo,             \* what bcfg.options finds: [haveCfg, cfg]
    faults,           \* which external steps fail: [failInit, failRelease]
    UseHAMTSharding,  \* uio.UseHAMTSharding, process-wide
    Debug,            \* util.Debug, process-wide
    state,            \* lifecycle state of the node being built
    step,             \* position of the build inside Building
    registry,         \* the fx.Option IPFS returned, flattened
    constructed,      \* names of the Providers that have executed
    acquired,         \* Initializers that ran, in acquisition order
    released,         \* resources released so far, in release order
    teardownErrs,     \* releases that failed
    primaryErr,       \* the construction error that aborted the build
    reportedErr,      \* the error returned to the caller
    buildNo,          \* number of IPFS() calls so far
    hist              \* the previous call: [called, debug, opt, shardingBefore]

vars == << bcfgArg, repo, faults, UseHAMTSharding, Debug, state, step, registry,
           constructed, acquired, released, teardownErrs, primaryErr,
           reportedErr, buildNo, hist >>

\* ------------------------------------------------------------ fx.Option
NoArgs == <<>>

\* an item of a flattened option: a construction unit or an error.
Unit(kind, name, args) == [kind |-> kind, name |-> name, args |-> args]

fxProvide(name, args) == << Unit("provide", name, args) >>

fxInvoke(name, args) == << Unit("invoke", name, args) >>

fxError(msg) == << Unit("error", msg, NoArgs) >>

fxNone == <<>>

IsInvoke(u) == u.kind = "invoke"

IsProvide(u) == u.kind = "provide"

IsError(u) == u.kind = "error"

\* the errors an option carries, in order.
Errors(opt) == SelectSeq(opt, IsError)

\* an option that is one fx.Error, as the early returns of the groups are.
IsErrorOption(opt) == opt # <<>> /\ IsError(opt[1])

maybeProvide(name, enable) == IF enable THEN fxProvide(name, NoArgs) ELSE fxNone

maybeInvoke(name, args, enable) == IF enable THEN fxInvoke(name, args) ELSE fxNone

b2i(b) == IF b THEN 1 ELSE 0

\* ------------------------------------------------------ time.ParseDuration
Digits == {"0", "1", "2", "3", "4", "5", "6", "7", "8", "9"}

DigitVal(c) ==
    CASE c = "0" -> 0 [] c = "1" -> 1 [] c = "2" -> 2 [] c = "3" -> 3
      [] c = "4" -> 4 [] c = "5" -> 5 [] c = "6" -> 6 [] c = "7" -> 7
      [] c = "8" -> 8 [] c = "9" -> 9

\* leadingInt: the longest prefix of digits, as a number, and the rest.
RECURSIVE leadingInt(_, _)
leadingInt(s, x) ==
    IF s # <<>> /\ Head(s) \in Digits
    THEN leadingInt(Tail(s), x * 10 + DigitVal(Head(s)))
    ELSE [x |-> x, rem |-> s]

\* the fraction digits after a ".": numerator, scale and the rest.
RECURSIVE leadingFraction(_, _, _)
leadingFraction(s, f, scale) ==
    IF s # <<>> /\ Head(s) \in Digits
    THEN leadingFraction(Tail(s), f * 10 + DigitVal(Head(s)), scale * 10)
    ELSE [f |-> f, scale |-> scale, rem |-> s]

\* length of the unit: the characters up to the next "." or digit.
RECURSIVE unitLen(_)
unitLen(s) ==
    IF s = <<>> \/ Head(s) = "." \/ Head(s) \in Digits THEN 0
    ELSE 1 + unitLen(Tail(s))

\* unitMap, for the units of a millisecond and above.
unitMap(u) ==
    CASE u = <<"m", "s">> -> Millisecond
      [] u = <<"s">> -> Second
      [] u = <<"m">> -> Minute
      [] u = <<"h">> -> Hour
      [] OTHER -> 0

DurOk(d) == [ok |-> TRUE, d |-> d, err |-> ""]

DurErr(e) == [ok |-> FALSE, d |-> 0, err |-> e]

RECURSIVE parseSegments(_, _)

\* the unit of a segment and the rest of the string: n is the unit's length.
parseUnit(li, fr, n, d) ==
    IF n = 0 THEN DurErr("missing unit in duration")
    ELSE IF unitMap(SubSeq(fr.rem, 1, n)) = 0 THEN DurErr("unknown unit in duration")
    ELSE parseSegments(SubSeq(fr.rem, n + 1, Len(fr.rem)),
                       d + li.x * unitMap(SubSeq(fr.rem, 1, n))
                         + (fr.f * unitMap(SubSeq(fr.rem, 1, n))) \div fr.scale)

\* a segment whose integer part li and fraction part fr have been consumed:
\* pre and post tell whether either had a digit.
parseNumber(li, fr, pre, post, d) ==
    IF ~pre /\ ~post THEN DurErr("invalid duration")
    ELSE parseUnit(li, fr, unitLen(fr.rem), d)

\* a segment whose integer part li has been consumed from s.
parseFraction(li, s, d) ==
    IF li.rem # <<>> /\ Head(li.rem) = "."
    THEN parseNumber(li, leadingFraction(Tail(li.rem), 0, 1), Len(li.rem) # Len(s),
                     Tail(li.rem) # <<>> /\ Head(Tail(li.rem)) \in Digits, d)
    ELSE parseNumber(li, [f |-> 0, scale |-> 1, rem |-> li.rem], Len(li.rem) # Len(s),
                     FALSE, d)

\* the segments [0-9]*(\.[0-9]*)?[a-z]+ of s, added to d.
parseSegments(s, d) ==
    IF s = <<>> THEN DurOk(d)
    ELSE IF ~(Head(s) = "." \/ Head(s) \in Digits) THEN DurErr("invalid duration")
    ELSE parseFraction(leadingInt(s, 0), s, d)

\* the duration of a string without its sign.
parseUnsigned(s) ==
    IF s = <<"0">> THEN DurOk(0)
    ELSE IF s = <<>> THEN DurErr("invalid duration")
    ELSE parseSegments(s, 0)

negate(r) == IF r.ok THEN DurOk(0 - r.d) ELSE r

ParseDuration(str) ==
    IF str # <<>> /\ Head(str) = "-" THEN negate(parseUnsigned(Tail(str)))
    ELSE IF str # <<>> /\ Head(str) = "+" THEN parseUnsigned(Tail(str))
    ELSE parseUnsigned(str)


\* -------------------------------------------------- identity decoding
\* peer.IDB58Decode succeeds on the well-formed peer ids.
WellFormedPeerIDs == {"QmNodeID"}

IDB58Decode(cid) ==
    IF cid \in WellFormedPeerIDs THEN [ok |-> TRUE, err |-> ""]
    ELSE [ok |-> FALSE, err |-> "invalid base58 multihash"]

\* cfg.Identity.DecodePrivateKey succeeds on the well-formed keys.
WellFormedPrivKeys == {"CAASprivkey"}

DecodePrivateKey(identity) ==
    IF identity.PrivKey \in WellFormedPrivKeys THEN [ok |-> TRUE, err |-> ""]
    ELSE [ok |-> FALSE, err |-> "illegal base64 data"]

\* ------------------------------------------------------------ BuildCfg
getOpt(bcfg, key) == key \in bcfg.ExtraOpts

\* new(BuildCfg): the zero value.
ZeroBuildCfg ==
    [Online |-> FALSE, Permanent |-> FALSE, NilRepo |-> FALSE,
     DisableEncryptedConnections |-> FALSE, ExtraOpts |-> {}]

\* ------------------------------------------------------------- groups
BaseLibP2P ==
    (        fxProvide("libp2p.PNet", NoArgs)
     \o fxProvide("libp2p.ConnectionManager", NoArgs)
     \o fxProvide("libp2p.DefaultTransports", NoArgs)
     \o fxProvide("libp2p.Host", NoArgs)
     \o fxProvide("libp2p.DiscoveryHandler", NoArgs)
     \o fxInvoke("libp2p.PNetChecker", NoArgs))

\* the connection-manager part of LibP2P, pd being the parsed grace period:
\* the selected option, or the error LibP2P returns at once.
connMgrSelect(type, pd, lowWater, highWater) ==
    IF type = "none" THEN fxNone
    ELSE IF type = ""
         THEN fxProvide("libp2p.ConnectionManager",
                        <<DefaultConnMgrHighWater, DefaultConnMgrHighWater,
                          DefaultConnMgrGracePeriod>>)
    ELSE IF type = "basic" /\ ~pd.ok
         THEN fxError("parsing Swarm.ConnMgr.GracePeriod: %s")
    ELSE IF type = "basic"
         THEN fxProvide("libp2p.ConnectionManager", <<lowWater, highWater, pd.d>>)
    ELSE fxError("unrecognized ConnMgr.Type: %q")

ConnMgrOption(cfg) ==
    connMgrSelect(cfg.Swarm.ConnMgr.Type, ParseDuration(cfg.Swarm.ConnMgr.GracePeriod),
                  cfg.Swarm.ConnMgr.LowWater, cfg.Swarm.ConnMgr.HighWater)

\* the pub/sub part of LibP2P: the selected router, or the error.
PubSubOption(bcfg, cfg) ==
    LET pubsubOptions == << b2i(cfg.Pubsub.DisableSigning),
                            b2i(cfg.Pubsub.StrictSignatureVerification) >>
        router == cfg.Pubsub.Router
    IN  IF ~(getOpt(bcfg, "pubsub") \/ getOpt(bcfg, "ipnsps")) THEN fxNone
        ELSE IF router \in {"", "floodsub"}
             THEN fxProvide("libp2p.FloodSub", pubsubOptions)
        ELSE IF router = "gossipsub"
             THEN fxProvide("libp2p.GossipSub", pubsubOptions)
        ELSE fxError("unknown pubsub router %s")

\* LibP2P once its connection-manager and pub/sub options are selected.
libp2pOptions(bcfg, cfg, connmgr, ps) ==
    IF IsErrorOption(connmgr) THEN connmgr
    ELSE IF IsErrorOption(ps) THEN ps
    ELSE BaseLibP2P
         \o fxProvide("libp2p.AddrFilters", NoArgs)
         \o fxInvoke("libp2p.SetupDiscovery",
                     <<b2i(cfg.Discovery.MDNS.Enabled), cfg.Discovery.MDNS.Interval>>)
         \o fxProvide("libp2p.AddrsFactory", NoArgs)
         \o fxProvide("libp2p.SmuxTransport", <<b2i(getOpt(bcfg, "mplex"))>>)
         \o fxProvide("libp2p.Relay",
                      <<b2i(cfg.Swarm.DisableRelay), b2i(cfg.Swarm.EnableRelayHop)>>)
         \o fxInvoke("libp2p.StartListening", NoArgs)
         \o fxProvide("libp2p.Security",
                      <<b2i(~bcfg.DisableEncryptedConnections),
                        b2i(cfg.Experimental.PreferTLS)>>)
         \o fxProvide("libp2p.Routing", NoArgs)
         \o fxProvide("libp2p.BaseRouting", NoArgs)
         \o maybeProvide("libp2p.PubsubRouter", getOpt(bcfg, "ipnsps"))
         \o maybeProvide("libp2p.BandwidthCounter", ~cfg.Swarm.DisableBandwidthMetrics)
         \o maybeProvide("libp2p.NatPortMap", ~cfg.Swarm.DisableNatPortMap)
         \o maybeProvide("libp2p.AutoRealy", cfg.Swarm.EnableAutoRelay)
         \o maybeProvide("libp2p.QUIC", cfg.Experimental.QUIC)
         \o maybeInvoke("libp2p.AutoNATService", <<b2i(cfg.Experimental.QUIC)>>,
                        cfg.Swarm.EnableAutoNATService)
         \o connmgr
         \o ps

LibP2P(bcfg, cfg) ==
    libp2pOptions(bcfg, cfg, ConnMgrOption(cfg), PubSubOption(bcfg, cfg))

\* finalBstore chosen by the process-wide sharding switch as well.
finalBstoreFromGlobal(cfg) ==
    IF cfg.Experimental.FilestoreEnabled \/ cfg.Experimental.UrlstoreEnabled
       \/ UseHAMTSharding
    THEN fxProvide("FilestoreBlockstoreCtor", NoArgs)
    ELSE fxProvide("GcBlockstoreCtor", NoArgs)

\* the block store Storage installs last.
finalBstore(cfg) ==
    IF cfg.Experimental.FilestoreEnabled \/ cfg.Experimental.UrlstoreEnabled
    THEN fxProvide("FilestoreBlockstoreCtor", NoArgs)
    ELSE fxProvide("GcBlockstoreCtor", NoArgs)

\* cacheOpts.HasBloomFilterSize as Storage sets it.
HasBloomFilterSize(bcfg, cfg) ==
    IF ~bcfg.Permanent THEN 0 ELSE cfg.Datastore.BloomFilterSize

Storage(bcfg, cfg) ==
    fxProvide("repo.Repo.Config", NoArgs)
    \o fxProvide("repo.Repo.Datastore", NoArgs)
    \o fxProvide("BaseBlockstoreCtor",
                 <<HasBloomFilterSize(bcfg, cfg), b2i(bcfg.NilRepo),
                   b2i(cfg.Datastore.HashOnRead)>>)
    \o finalBstore(cfg)

\* Identity without its check for an empty peer id.
IdentityNoEmptyCheck(cfg) ==
    IF ~IDB58Decode(cfg.Identity.PeerID).ok THEN fxError("peer ID invalid: %s")
    ELSE IF cfg.Identity.PrivKey = ""
    THEN fxProvide("PeerID", NoArgs)
         \o fxProvide("pstoremem.NewPeerstore", NoArgs)
    ELSE IF ~DecodePrivateKey(cfg.Identity).ok THEN fxError("decoding private key")
    ELSE fxProvide("PeerID", NoArgs)
         \o fxProvide("PrivateKey", NoArgs)
         \o fxProvide("pstoremem.NewPeerstore", NoArgs)
         \o fxInvoke("libp2p.PstoreAddSelfKeys", NoArgs)

Identity(cfg) ==
    IF cfg.Identity.PeerID = ""
    THEN fxError("identity was not set in config (was 'ipfs init' run?)")
    ELSE IF ~IDB58Decode(cfg.Identity.PeerID).ok THEN fxError("peer ID invalid: %s")
    ELSE IF cfg.Identity.PrivKey = ""
    THEN fxProvide("PeerID", NoArgs)
         \o fxProvide("pstoremem.NewPeerstore", NoArgs)
    ELSE IF ~DecodePrivateKey(cfg.Identity).ok THEN fxError("decoding private key")
    ELSE fxProvide("PeerID", NoArgs)
         \o fxProvide("PrivateKey", NoArgs)
         \o fxProvide("pstoremem.NewPeerstore", NoArgs)
         \o fxInvoke("libp2p.PstoreAddSelfKeys", NoArgs)

IPNS == ( fxProvide("RecordValidator", NoArgs))

\* keyProvider with an unknown strategy treated as "all".
keyProviderAnyStrategy(strategy) ==
    IF strategy = "roots"
    THEN fxProvide("reprovide.NewPinnedProvider", <<b2i(TRUE)>>)
    ELSE IF strategy = "pinned"
    THEN fxProvide("reprovide.NewPinnedProvider", <<b2i(FALSE)>>)
    ELSE fxProvide("reprovide.NewBlockstoreProvider", NoArgs)

\* the key source of the reprovider, by strategy.
keyProvider(strategy) ==
    IF strategy \in {"all", ""}
    THEN fxProvide("reprovide.NewBlockstoreProvider", NoArgs)
    ELSE IF strategy = "roots"
    THEN fxProvide("reprovide.NewPinnedProvider", <<b2i(TRUE)>>)
    ELSE IF strategy = "pinned"
    THEN fxProvide("reprovide.NewPinnedProvider", <<b2i(FALSE)>>)
    ELSE fxError("unknown reprovider strategy '%s'")

\* Providers, pd being the parsed cfg.Reprovider.Interval.
providersOptions(cfg, pd) ==
    IF cfg.Reprovider.Interval # <<>> /\ ~pd.ok THEN fxError("time: %s")
    ELSE IF cfg.Reprovider.Strategy \notin {"all", "", "roots", "pinned"}
    THEN keyProvider(cfg.Reprovider.Strategy)
    ELSE fxProvide("ProviderQueue", NoArgs)
         \o fxProvide("ProviderCtor", NoArgs)
         \o fxProvide("ReproviderCtor",
                      <<IF cfg.Reprovider.Interval # <<>> THEN pd.d
                        ELSE kReprovideFrequency>>)
         \o keyProvider(cfg.Reprovider.Strategy)
         \o fxInvoke("Reprovider", NoArgs)

Providers(cfg) == providersOptions(cfg, ParseDuration(cfg.Reprovider.Interval))

\* ipnsCacheSize without the default for zero.
ipnsCacheSizeNoDefault(cfg) == cfg.Ipns.ResolveCacheSize

\* the range check of the republish period with the lower bound excluded.
repubOutOfRangeStrict(d) == d <= Minute \/ d > Hour * 24

\* the range check Online makes on the republish period.
repubOutOfRange(d) == d < Minute \/ d > Hour * 24

\* the resolve-cache size Online passes on.
ipnsCacheSize(cfg) ==
    IF cfg.Ipns.ResolveCacheSize = 0 THEN DefaultIpnsCacheSize
    ELSE cfg.Ipns.ResolveCacheSize

\* Online, rp and rl being the parsed republish period and record lifetime.
onlineOptions(bcfg, cfg, debug, size, rp, rl) ==
    IF size < 0
    THEN fxError("cannot specify negative resolve cache size")
    ELSE IF cfg.Ipns.RepublishPeriod # <<>> /\ ~rp.ok
    THEN fxError("failure to parse config setting IPNS.RepublishPeriod: %s")
    ELSE IF cfg.Ipns.RepublishPeriod # <<>>
            /\ ~debug /\ repubOutOfRange(rp.d)
    THEN fxError("config setting IPNS.RepublishPeriod is not between 1min and 1day: %s")
    ELSE IF cfg.Ipns.RecordLifetime # <<>> /\ ~rl.ok
    THEN fxError("failure to parse config setting IPNS.RecordLifetime: %s")
    ELSE fxProvide("OnlineExchange", NoArgs)
         \o fxProvide("Namesys", <<size>>)
         \o fxInvoke("IpnsRepublisher",
                     << IF cfg.Ipns.RepublishPeriod # <<>> THEN rp.d ELSE 0,
                        IF cfg.Ipns.RecordLifetime # <<>> THEN rl.d ELSE 0 >>)
         \o fxProvide("p2p.New", NoArgs)
         \o LibP2P(bcfg, cfg)
         \o Providers(cfg)

\* Online reads the process-wide util.Debug; it is passed as debug.
Online(bcfg, cfg, debug) ==
    onlineOptions(bcfg, cfg, debug, ipnsCacheSize(cfg),
                  ParseDuration(cfg.Ipns.RepublishPeriod),
                  ParseDuration(cfg.Ipns.RecordLifetime))

Offline ==
    (        fxProvide("offline.Exchange", NoArgs)
     \o fxProvide("Namesys", <<0>>)
     \o fxProvide("offroute.NewOfflineRouter", NoArgs)
     \o fxProvide("provider.NewOfflineProvider", NoArgs))

Core ==
    (        fxProvide("BlockService", NoArgs)
     \o fxProvide("Dag", NoArgs)
     \o fxProvide("resolver.NewBasicResolver", NoArgs)
     \o fxProvide("Pinning", NoArgs)
     \o fxProvide("Files", NoArgs))

\* Networked with the offline profile given the online bundle too.
NetworkedAlwaysOnline(bcfg, cfg, debug) == Online(bcfg, cfg, debug)

Networked(bcfg, cfg, debug) ==
    IF bcfg.Online THEN Online(bcfg, cfg, debug) ELSE Offline


\* bcfg.options(ctx): the options of the build configuration and the node
\* configuration of its repository, or an error option and no configuration.
bcfgOptions(bcfg, r) ==
    IF r.haveCfg
    THEN [opts |-> fxProvide("bcfg.options", NoArgs), ok |-> TRUE]
    ELSE [opts |-> fxError("bcfg.options: no configuration"), ok |-> FALSE]

\* IPFS once bcfg is not nil and bcfg.options has returned o.
ipfsOptions(bcfg, o, cfg, debug, sharding) ==
    IF ~o.ok THEN [opt |-> o.opts, sharding |-> sharding]
    ELSE [opt |-> o.opts
                  \o fxProvide("baseProcess", NoArgs)
                  \o Storage(bcfg, cfg)
                  \o Identity(cfg)
                  \o IPNS
                  \o Networked(bcfg, cfg, debug)
                  \o Core,
          sharding |-> cfg.Experimental.ShardingEnabled]

\* IPFS builds the group of options for the passed BuildCfg; it returns the
\* option and the value it leaves in uio.UseHAMTSharding.
IPFS(a, r, debug, sharding) ==
    IF a.nil
    THEN ipfsOptions(ZeroBuildCfg, bcfgOptions(ZeroBuildCfg, r), r.cfg, debug, sharding)
    ELSE ipfsOptions(a.bcfg, bcfgOptions(a.bcfg, r), r.cfg, debug, sharding)

\* ------------------------------------------------------------- inputs
DefaultInput ==
    [ BcfgNil |-> FALSE, HaveCfg |-> TRUE, Online |-> TRUE, Permanent |-> TRUE,
      pubsub |-> FALSE, ipnsps |-> FALSE,
      PeerID |-> "QmNodeID", PrivKey |-> "CAASprivkey",
      ConnMgrType |-> "", GracePeriod |-> <<"3", "0", "s">>,
      DisableBandwidthMetrics |-> FALSE, DisableNatPortMap |-> FALSE,
      EnableAutoRelay |-> FALSE, EnableAutoNATService |-> TRUE,
      Router |-> "",
      ReproviderInterval |-> <<>>, Strategy |-> "",
      ResolveCacheSize |-> 0, RepublishPeriod |-> <<>>, RecordLifetime |-> <<>>,
      FilestoreEnabled |-> FALSE, UrlstoreEnabled |-> FALSE,
      ShardingEnabled |-> FALSE, QUIC |-> FALSE ]

\* the other values each field takes.
Alternatives ==
    [ BcfgNil |-> {TRUE}, HaveCfg |-> {FALSE}, Online |-> {FALSE},
      Permanent |-> {}, pubsub |-> {TRUE}, ipnsps |-> {TRUE},
      PeerID |-> {"", "0OIl"}, PrivKey |-> {"", "%%%"},
      ConnMgrType |-> {"basic", "none", "bogus"},
      GracePeriod |-> {<<>>, <<"1", ".", "5", "m">>},
      DisableBandwidthMetrics |-> {}, DisableNatPortMap |-> {},
      EnableAutoRelay |-> {}, EnableAutoNATService |-> {FALSE},
      Router |-> {"floodsub", "gossipsub", "meshsub"},
      ReproviderInterval |-> {<<"1", "h">>, <<"o", "f", "t", "e", "n">>},
      Strategy |-> {"all", "roots", "pinned", "some"},
      ResolveCacheSize |-> {0 - 1, 64},
      RepublishPeriod |-> { <<"5", "9", "s">>, <<"1", "m">>, <<"2", "4", "h">>,
                            <<"1", "4", "4", "0", "m", "1", "m", "s">>,
                            <<"4", "x">> },
      RecordLifetime |-> {<<"2", "4", "h">>, <<"1", "d">>},
      FilestoreEnabled |-> {TRUE}, UrlstoreEnabled |-> {TRUE},
      ShardingEnabled |-> {TRUE}, QUIC |-> {TRUE} ]

\* the inputs reached from the inputs S by changing one more field.
Deviate(S) ==
    S \cup UNION { UNION { { [i EXCEPT ![f] = v] : v \in Alternatives[f] }
                           : f \in DOMAIN DefaultInput }
                   : i \in S }

RECURSIVE Deviations(_)
Deviations(n) == IF n = 0 THEN {DefaultInput} ELSE Deviate(Deviations(n - 1))

Inputs == Deviations(MaxDeviations)

\* the *BuildCfg of an input.
ArgOf(i) ==
    [ nil  |-> i.BcfgNil,
      bcfg |-> [ Online |-> i.Online, Permanent |-> i.Permanent, NilRepo |-> FALSE,
                 DisableEncryptedConnections |-> FALSE,
                 ExtraOpts |-> (IF i.pubsub THEN {"pubsub"} ELSE {})
                               \cup (IF i.ipnsps THEN {"ipnsps"} ELSE {}) ] ]

\* the repository configuration of an input.
RepoOf(i) ==
    [ haveCfg |-> i.HaveCfg,
      cfg |-> [
        Identity  |-> [PeerID |-> i.PeerID, PrivKey |-> i.PrivKey],
        Datastore |-> [BloomFilterSize |-> 1048576, HashOnRead |-> FALSE],
        Swarm |-> [ ConnMgr |-> [ Type |-> i.ConnMgrType,
                                  GracePeriod |-> i.GracePeriod,
                                  LowWater |-> 100, HighWater |-> 200 ],
                    DisableRelay |-> FALSE, EnableRelayHop |-> FALSE,
                    DisableBandwidthMetrics |-> i.DisableBandwidthMetrics,
                    DisableNatPortMap |-> i.DisableNatPortMap,
                    EnableAutoRelay |-> i.EnableAutoRelay,
                    EnableAutoNATService |-> i.EnableAutoNATService ],
        Pubsub |-> [ Router |-> i.Router, DisableSigning |-> FALSE,
                     StrictSignatureVerification |-> FALSE ],
        Reprovider |-> [Interval |-> i.ReproviderInterval, Strategy |-> i.Strategy],
        Ipns |-> [ ResolveCacheSize |-> i.ResolveCacheSize,
                   RepublishPeriod |-> i.RepublishPeriod,
                   RecordLifetime |-> i.RecordLifetime ],
        Discovery |-> [MDNS |-> [Enabled |-> TRUE, Interval |-> 10]],
        Experimental |-> [ FilestoreEnabled |-> i.FilestoreEnabled,
                           UrlstoreEnabled |-> i.UrlstoreEnabled,
                           ShardingEnabled |-> i.ShardingEnabled,
                           PreferTLS |-> FALSE, QUIC |-> i.QUIC ] ] ]


\* ---------------------------------------------------- build of a registry
NoErr == Unit("error", "", NoArgs)

InitializerErr(name) == Unit("error", "initializer failed", <<name>>)

\* the Initializers of an option, in registry order.
Initializers(opt) == SelectSeq(opt, IsInvoke)

\* the names of the Providers of an option.
ProviderNames(opt) == { opt[k].name : k \in { j \in DOMAIN opt : IsProvide(opt[j]) } }

InitializerNames(opt) == { opt[k].name : k \in { j \in DOMAIN opt : IsInvoke(opt[j]) } }

\* NextRelease in acquisition order.
NextReleaseForward(acq, rel) == acq[Len(rel) + 1]

\* the resource the next release step gives back: the most recently acquired
\* one that is still held.
NextRelease(acq, rel) == acq[Len(acq) - Len(rel)]

\* the error a failed build reports: the construction error, whatever the
\* teardown collected.
ReportedError(primary, tdErrs) == primary

\* the error a build reports when its registry carries errors: the first.
ConfigError(opt) == Head(Errors(opt))

NoFaults == [failInit |-> "", failRelease |-> {}]

\* the inputs whose builds are run with failing Initializers and releases.
FaultInputs == { DefaultInput, [DefaultInput EXCEPT !.Online = FALSE] }

\* the fault plans over the Initializers names.
plansOver(names) ==
    { [failInit |-> f, failRelease |-> R] :
        f \in names \cup {""},
        R \in { S \in SUBSET names : Cardinality(S) <= MaxTeardownFaults } }

FaultPlans(i) ==
    IF i \notin FaultInputs THEN {NoFaults}
    ELSE plansOver(InitializerNames(IPFS(ArgOf(i), RepoOf(i), FALSE, FALSE).opt))

NoHist == [called |-> FALSE, debug |-> FALSE, opt |-> fxNone, shardingBefore |-> FALSE]

Init ==
    /\ UseHAMTSharding = FALSE
    /\ Debug = FALSE
    /\ \E i \in Inputs :
          /\ bcfgArg = ArgOf(i)
          /\ repo = RepoOf(i)
          /\ faults \in FaultPlans(i)
    /\ state = "Idle"
    /\ step = "none"
    /\ registry = fxNone
    /\ constructed = {}
    /\ acquired = <<>>
    /\ released = <<>>
    /\ teardownErrs = <<>>
    /\ primaryErr = NoErr
    /\ reportedErr = NoErr
    /\ buildNo = 0
    /\ hist = NoHist

inputsUnchanged == UNCHANGED << bcfgArg, repo, faults >>

\* the embedding command switches util.Debug between builds.
SetDebug ==
    /\ state = "Idle"
    /\ Debug' = ~Debug
    /\ inputsUnchanged
    /\ UNCHANGED << UseHAMTSharding, state, step, registry, constructed, acquired,
                    released, teardownErrs, primaryErr, reportedErr, buildNo, hist >>

\* Returned with the sharding switch set by accepted configurations only.
ReturnedIfAccepted(res) ==
    /\ registry' = res.opt
    /\ UseHAMTSharding' = IF Errors(res.opt) # <<>> THEN UseHAMTSharding
                          ELSE res.sharding

\* what a call of IPFS leaves behind: its option and the sharding switch.
Returned(res) ==
    /\ registry' = res.opt
    /\ UseHAMTSharding' = res.sharding

\* IPFS(ctx, bcfg) is called and its option handed to the builder.
CallIPFS ==
    /\ state = "Idle"
    /\ buildNo < MaxBuilds
    /\ Returned(IPFS(bcfgArg, repo, Debug, UseHAMTSharding))
    /\ hist' = [hist EXCEPT !.shardingBefore = UseHAMTSharding]
    /\ state' = "Building"
    /\ step' = "validate"
    /\ buildNo' = buildNo + 1
    /\ inputsUnchanged
    /\ UNCHANGED << Debug, constructed, acquired, released, teardownErrs,
                    primaryErr, reportedErr >>

\* a registry that carries an error fails the build before any unit runs.
RejectConfig ==
    /\ state = "Building" /\ step = "validate"
    /\ Errors(registry) # <<>>
    /\ state' = "Failed"
    /\ step' = "none"
    /\ reportedErr' = ConfigError(registry)
    /\ inputsUnchanged
    /\ UNCHANGED << UseHAMTSharding, Debug, registry, constructed, acquired,
                    released, teardownErrs, primaryErr, buildNo, hist >>

\* the Providers of an error-free registry are constructed, each once.
ConstructProviders ==
    /\ state = "Building" /\ step = "validate"
    /\ Errors(registry) = <<>>
    /\ constructed' = ProviderNames(registry)
    /\ step' = "invoke"
    /\ inputsUnchanged
    /\ UNCHANGED << UseHAMTSharding, Debug, state, registry, acquired, released,
                    teardownErrs, primaryErr, reportedErr, buildNo, hist >>

\* one Initializer runs: it acquires its resource, or fails and the build
\* starts to unwind.
Invoke(name) ==
    IF name = faults.failInit
    THEN /\ primaryErr' = InitializerErr(name)
         /\ step' = "unwind"
         /\ UNCHANGED acquired
    ELSE /\ acquired' = Append(acquired, name)
         /\ UNCHANGED << primaryErr, step >>

\* the next Initializer of the registry runs.
RunInitializer ==
    /\ state = "Building" /\ step = "invoke"
    /\ Len(acquired) < Len(Initializers(registry))
    /\ Invoke(Initializers(registry)[Len(acquired) + 1].name)
    /\ inputsUnchanged
    /\ UNCHANGED << UseHAMTSharding, Debug, state, registry, constructed, released,
                    teardownErrs, reportedErr, buildNo, hist >>

\* every Initializer has run: the node is running.
FinishBuild ==
    /\ state = "Building" /\ step = "invoke"
    /\ Len(acquired) = Len(Initializers(registry))
    /\ state' = "Running"
    /\ step' = "none"
    /\ inputsUnchanged
    /\ UNCHANGED << UseHAMTSharding, Debug, registry, constructed, acquired,
                    released, teardownErrs, primaryErr, reportedErr, buildNo, hist >>

\* an explicit shutdown request.
Shutdown ==
    /\ state = "Running"
    /\ state' = "ShuttingDown"
    /\ step' = "unwind"
    /\ inputsUnchanged
    /\ UNCHANGED << UseHAMTSharding, Debug, registry, constructed, acquired,
                    released, teardownErrs, primaryErr, reportedErr, buildNo, hist >>

\* a resource is released; a failure of the release is collected.
ReleaseOne(name) ==
    /\ released' = Append(released, name)
    /\ teardownErrs' = IF name \in faults.failRelease
                       THEN Append(teardownErrs, name)
                       ELSE teardownErrs

\* one release step of a teardown.
Release ==
    /\ step = "unwind"
    /\ Len(released) < Len(acquired)
    /\ ReleaseOne(NextRelease(acquired, released))
    /\ inputsUnchanged
    /\ UNCHANGED << UseHAMTSharding, Debug, state, step, registry, constructed,
                    acquired, primaryErr, reportedErr, buildNo, hist >>

\* the teardown is complete: a failed build is Failed, a shut down node Stopped.
FinishTeardown ==
    /\ step = "unwind"
    /\ Len(released) = Len(acquired)
    /\ IF state = "Building"
       THEN /\ state' = "Failed"
            /\ reportedErr' = ReportedError(primaryErr, teardownErrs)
       ELSE /\ state' = "Stopped"
            /\ UNCHANGED reportedErr
    /\ step' = "none"
    /\ inputsUnchanged
    /\ UNCHANGED << UseHAMTSharding, Debug, registry, constructed, acquired,
                    released, teardownErrs, primaryErr, buildNo, hist >>

\* recovery: the caller drops the node and builds again from configuration.
Rebuild ==
    /\ state \in {"Failed", "Stopped"}
    /\ buildNo < MaxBuilds
    /\ hist' = [hist EXCEPT !.called = TRUE, !.debug = Debug, !.opt = registry]
    /\ state' = "Idle"
    /\ step' = "none"
    /\ registry' = fxNone
    /\ constructed' = {}
    /\ acquired' = <<>>
    /\ released' = <<>>
    /\ teardownErrs' = <<>>
    /\ primaryErr' = NoErr
    /\ reportedErr' = NoErr
    /\ inputsUnchanged
    /\ UNCHANGED << UseHAMTSharding, Debug, buildNo >>

Next ==
    \/ SetDebug
    \/ CallIPFS
    \/ RejectConfig
    \/ ConstructProviders
    \/ RunInitializer
    \/ FinishBuild
    \/ Shutdown
    \/ Release
    \/ FinishTeardown
    \/ Rebuild

Spec == Init /\ [][Next]_vars


\* ----------------------------------------------------- output types
\* the type a Provider supplies to its consumers; the Providers that the
\* two profiles swap supply the same four types.
OutputType(name) ==
    CASE name \in {"OnlineExchange", "offline.Exchange"} -> "exchange.Interface"
      [] name \in {"libp2p.Routing", "offroute.NewOfflineRouter"} -> "routing.IpfsRouting"
      [] name \in {"ProviderCtor", "provider.NewOfflineProvider"} -> "provider.Provider"
      [] name = "Namesys" -> "namesys.NameSystem"
      [] OTHER -> name

\* ============================================================ properties
curBcfg == IF bcfgArg.nil THEN ZeroBuildCfg ELSE bcfgArg.bcfg

curCfg == repo.cfg

\* IPFS has been called for the node at hand and found a configuration.
Assembled == state # "Idle" /\ repo.haveCfg

Units(opt) == { opt[k] : k \in DOMAIN opt }

HasError(opt, msg) == Unit("error", msg, NoArgs) \in Units(opt)

\* the number of units of an option whose constructor is one of names.
CountNamed(opt, names) ==
    Cardinality({ k \in DOMAIN opt : ~IsError(opt[k]) /\ opt[k].name \in names })

\* the number of Providers of an option that supply type.
Producers(opt, type) ==
    Cardinality({ k \in DOMAIN opt : IsProvide(opt[k]) /\ OutputType(opt[k].name) = type })

\* the build has failed or is about to, and nothing was constructed.
NothingBuilt ==
    /\ Errors(registry) # <<>>
    /\ state \in {"Building", "Failed"}
    /\ state = "Building" => step = "validate"
    /\ constructed = {}
    /\ acquired = <<>>

MsgConnMgrType == "unrecognized ConnMgr.Type: %q"

MsgPubsubRouter == "unknown pubsub router %s"

MsgStrategy == "unknown reprovider strategy '%s'"

MsgIdentity == "identity was not set in config (was 'ipfs init' run?)"

MsgCacheSize == "cannot specify negative resolve cache size"

MsgRepubParse == "failure to parse config setting IPNS.RepublishPeriod: %s"

MsgRepubRange == "config setting IPNS.RepublishPeriod is not between 1min and 1day: %s"

BadConnMgrType == curCfg.Swarm.ConnMgr.Type \notin {"", "basic", "none"}

BadRouter == curCfg.Pubsub.Router \notin {"", "floodsub", "gossipsub"}

BadStrategy == curCfg.Reprovider.Strategy \notin {"", "all", "roots", "pinned"}

PubsubOn == "pubsub" \in curBcfg.ExtraOpts \/ "ipnsps" \in curBcfg.ExtraOpts

\* the republish period is set and fails Online's checks.
RepubParses == ParseDuration(curCfg.Ipns.RepublishPeriod).ok

RepubInRange ==
    /\ ParseDuration(curCfg.Ipns.RepublishPeriod).d >= 60 * 1000
    /\ ParseDuration(curCfg.Ipns.RepublishPeriod).d <= 24 * 60 * 60 * 1000

RepubSet == curCfg.Ipns.RepublishPeriod # <<>>

RepubValid == ~RepubSet \/ (RepubParses /\ (Debug \/ RepubInRange))

\* the checks Online makes itself, before it composes LibP2P and Providers.
NamingOk ==
    /\ curCfg.Ipns.ResolveCacheSize >= 0
    /\ RepubValid
    /\ curCfg.Ipns.RecordLifetime = <<>> \/ ParseDuration(curCfg.Ipns.RecordLifetime).ok

ConnMgrOk ==
    \/ curCfg.Swarm.ConnMgr.Type \in {"", "none"}
    \/ /\ curCfg.Swarm.ConnMgr.Type = "basic"
       /\ ParseDuration(curCfg.Swarm.ConnMgr.GracePeriod).ok

IntervalOk ==
    \/ curCfg.Reprovider.Interval = <<>>
    \/ ParseDuration(curCfg.Reprovider.Interval).ok

\* C1 (as claimed): whatever the build profile and the feature toggles, a
\* connection-manager type, pub/sub router or reprovider strategy outside
\* its closed set puts an error naming that field into the registry, the
\* build fails and no Provider executes.
C1_AnyProfile ==
    Assembled =>
        /\ BadConnMgrType => HasError(registry, MsgConnMgrType)
        /\ BadRouter => HasError(registry, MsgPubsubRouter)
        /\ BadStrategy => HasError(registry, MsgStrategy)
        /\ (BadConnMgrType \/ BadRouter \/ BadStrategy) => NothingBuilt

\* C1 (amended): in the online profile a value outside the closed set fails
\* the build and no Provider executes, the router being examined only with
\* the pubsub or ipnsps toggle on; the error names the field when the checks
\* made before it pass; in the offline profile the fields are not examined.
C1_OnlineProfile ==
    Assembled =>
        IF curBcfg.Online
        THEN /\ (BadConnMgrType /\ NamingOk) => HasError(registry, MsgConnMgrType)
             /\ (BadRouter /\ PubsubOn /\ NamingOk /\ ConnMgrOk)
                    => HasError(registry, MsgPubsubRouter)
             /\ (BadStrategy /\ NamingOk /\ IntervalOk) => HasError(registry, MsgStrategy)
             /\ (BadConnMgrType \/ (BadRouter /\ PubsubOn) \/ BadStrategy) => NothingBuilt
        ELSE /\ ~HasError(registry, MsgConnMgrType)
             /\ ~HasError(registry, MsgPubsubRouter)
             /\ ~HasError(registry, MsgStrategy)

C1_Witness ==
    /\ Assembled /\ curBcfg.Online /\ state = "Failed"
    /\ BadConnMgrType /\ BadStrategy
    /\ HasError(registry, MsgConnMgrType) /\ HasError(registry, MsgStrategy)
    /\ constructed = {}

\* C2: with an empty peer id the registry carries the identity-not-set error,
\* whatever the other bundles contribute; the build fails with that error and
\* no unit of any bundle is constructed.
C2_IdentityNotSet ==
    (Assembled /\ curCfg.Identity.PeerID = "") =>
        /\ HasError(registry, MsgIdentity)
        /\ NothingBuilt
        /\ state = "Failed" => reportedErr = Unit("error", MsgIdentity, NoArgs)

C2_Witness ==
    /\ Assembled /\ curCfg.Identity.PeerID = "" /\ curBcfg.Online
    /\ state = "Failed" /\ reportedErr = Unit("error", MsgIdentity, NoArgs)
    /\ Len(Errors(registry)) >= 2

OfflineBundle ==
    { Unit("provide", "offline.Exchange", NoArgs),
      Unit("provide", "Namesys", <<0>>),
      Unit("provide", "offroute.NewOfflineRouter", NoArgs),
      Unit("provide", "provider.NewOfflineProvider", NoArgs) }

NetworkingNames ==
    { "libp2p.PNet", "libp2p.ConnectionManager", "libp2p.DefaultTransports",
      "libp2p.Host", "libp2p.DiscoveryHandler", "libp2p.PNetChecker",
      "libp2p.AddrFilters", "libp2p.SetupDiscovery", "libp2p.AddrsFactory",
      "libp2p.SmuxTransport", "libp2p.Relay", "libp2p.StartListening",
      "libp2p.Security", "libp2p.Routing", "libp2p.BaseRouting",
      "libp2p.PubsubRouter", "libp2p.BandwidthCounter", "libp2p.NatPortMap",
      "libp2p.AutoRealy", "libp2p.QUIC", "libp2p.AutoNATService",
      "libp2p.FloodSub", "libp2p.GossipSub" }

ProvidingNames ==
    { "ProviderQueue", "ProviderCtor", "ReproviderCtor", "Reprovider",
      "reprovide.NewBlockstoreProvider", "reprovide.NewPinnedProvider" }

OnlineOnlyNames == { "OnlineExchange", "IpnsRepublisher", "p2p.New" }

CoreInputTypes ==
    { "exchange.Interface", "routing.IpfsRouting", "provider.Provider",
      "namesys.NameSystem" }

\* C3: with online=false the registry holds the offline bundle and no unit of
\* the networking, providing or online bundles, and each type the online
\* profile supplies to the core services has exactly one producer in it.
C3_OfflineBundle ==
    (Assembled /\ ~curBcfg.Online) =>
        /\ OfflineBundle \subseteq Units(registry)
        /\ CountNamed(registry, NetworkingNames \cup ProvidingNames \cup OnlineOnlyNames) = 0
        /\ CountNamed(registry, {"Namesys"}) = 1
        /\ \A t \in CoreInputTypes : Producers(registry, t) = 1

C3_Witness ==
    /\ Assembled /\ ~curBcfg.Online /\ state = "Running"
    /\ OfflineBundle \subseteq Units(registry)
    /\ { u.name : u \in OfflineBundle } \subseteq constructed

\* C4: at every decision point the registry holds exactly one of the named
\* alternatives; with connection-manager type "none" no connection-manager
\* unit is installed, with "" or "basic" exactly one.
C4_OneAlternative ==
    (Assembled /\ Errors(registry) = <<>>) =>
        /\ CountNamed(registry, {"GcBlockstoreCtor", "FilestoreBlockstoreCtor"}) = 1
        /\ CountNamed(registry, {"OnlineExchange", "offline.Exchange"}) = 1
        /\ curBcfg.Online =>
              /\ CountNamed(registry, {"libp2p.ConnectionManager"})
                    = IF curCfg.Swarm.ConnMgr.Type = "none" THEN 0 ELSE 1
              /\ CountNamed(registry, {"libp2p.FloodSub", "libp2p.GossipSub"})
                    = IF PubsubOn THEN 1 ELSE 0
              /\ CountNamed(registry, {"reprovide.NewBlockstoreProvider",
                                       "reprovide.NewPinnedProvider"}) = 1


\* C4 without its connection-manager part: the other decision points.
OtherDecisionPoints ==
    (Assembled /\ Errors(registry) = <<>>) =>
        /\ CountNamed(registry, {"GcBlockstoreCtor", "FilestoreBlockstoreCtor"}) = 1
        /\ CountNamed(registry, {"OnlineExchange", "offline.Exchange"}) = 1
        /\ curBcfg.Online =>
              /\ CountNamed(registry, {"libp2p.FloodSub", "libp2p.GossipSub"})
                    = IF PubsubOn THEN 1 ELSE 0
              /\ CountNamed(registry, {"reprovide.NewBlockstoreProvider",
                                       "reprovide.NewPinnedProvider"}) = 1

\* the Namesys units of the registry all carry this cache size.
NamesysSize(n) ==
    \A k \in DOMAIN registry :
        registry[k].name = "Namesys" => registry[k] = Unit("provide", "Namesys", <<n>>)

\* C5 (as claimed): in every build, online or offline, a resolve-cache size
\* of zero becomes the positive default, a positive size is passed through
\* and a negative size fails the build.
C5_EveryProfile ==
    Assembled =>
        /\ DefaultIpnsCacheSize > 0
        /\ curCfg.Ipns.ResolveCacheSize < 0 => NothingBuilt
        /\ curCfg.Ipns.ResolveCacheSize = 0 => NamesysSize(DefaultIpnsCacheSize)
        /\ curCfg.Ipns.ResolveCacheSize > 0 => NamesysSize(curCfg.Ipns.ResolveCacheSize)

\* C5 (amended): the normalisation is made by the online profile only; the
\* offline profile ignores the configured size: its naming system is built
\* with size 0 and a negative size does not fail the build.
C5_OnlineOnly ==
    Assembled =>
        IF curBcfg.Online
        THEN /\ DefaultIpnsCacheSize > 0
             /\ curCfg.Ipns.ResolveCacheSize < 0
                    => (NothingBuilt /\ HasError(registry, MsgCacheSize))
             /\ curCfg.Ipns.ResolveCacheSize = 0 => NamesysSize(DefaultIpnsCacheSize)
             /\ curCfg.Ipns.ResolveCacheSize > 0
                    => NamesysSize(curCfg.Ipns.ResolveCacheSize)
             /\ (NamingOk /\ ~HasError(registry, MsgIdentity))
                    => CountNamed(registry, {"Namesys"}) = 1
        ELSE /\ Unit("provide", "Namesys", <<0>>) \in Units(registry)
             /\ NamesysSize(0)
             /\ ~HasError(registry, MsgCacheSize)

C5_Witness ==
    /\ Assembled /\ ~curBcfg.Online /\ curCfg.Ipns.ResolveCacheSize < 0
    /\ state = "Running" /\ "Namesys" \in constructed

\* the republish period is one of the strings that denote d milliseconds.
Period1m == curCfg.Ipns.RepublishPeriod = <<"1", "m">>

Period24h == curCfg.Ipns.RepublishPeriod = <<"2", "4", "h">>

Period59s == curCfg.Ipns.RepublishPeriod = <<"5", "9", "s">>

PeriodOver24h == curCfg.Ipns.RepublishPeriod = <<"1", "4", "4", "0", "m", "1", "m", "s">>

NoRepubError ==
    ~HasError(registry, MsgRepubParse) /\ ~HasError(registry, MsgRepubRange)

\* C6 (as claimed): in every build a set republish period must parse and,
\* without the debug override, lie in [1 minute, 24 hours]; else the build
\* fails; the bounds themselves and an unset period are accepted.
C6_EveryProfile ==
    Assembled =>
        /\ ~RepubValid => NothingBuilt
        /\ (Period59s \/ PeriodOver24h) /\ ~Debug => NothingBuilt
        /\ (Period1m \/ Period24h \/ ~RepubSet) => NoRepubError

\* C6 (amended): the republish period is checked by the online profile
\* only; there the claim holds; the offline profile does not examine it.
C6_OnlineOnly ==
    Assembled =>
        IF curBcfg.Online
        THEN /\ ~RepubValid => NothingBuilt
             /\ (Period59s \/ PeriodOver24h) /\ ~Debug => NothingBuilt
             /\ (Period59s \/ PeriodOver24h) /\ ~Debug /\ curCfg.Ipns.ResolveCacheSize >= 0
                    => HasError(registry, MsgRepubRange)
             /\ (RepubSet /\ ~RepubParses /\ curCfg.Ipns.ResolveCacheSize >= 0)
                    => HasError(registry, MsgRepubParse)
             /\ (Period1m \/ Period24h \/ ~RepubSet \/ (Debug /\ RepubParses))
                    => NoRepubError
             /\ Errors(registry) = <<>> => RepubValid
        ELSE NoRepubError

C6_Witness ==
    /\ Assembled /\ curBcfg.Online /\ ~Debug /\ Period24h
    /\ state = "Running"
    /\ Unit("invoke", "IpnsRepublisher", <<24 * 60 * 60 * 1000, 0>>) \in Units(registry)

Reverse(s) == [k \in 1..Len(s) |-> s[Len(s) + 1 - k]]

\* C8: when an Initializer fails the build never runs a later Initializer and
\* never reaches Running; the resources acquired so far are released in
\* exact reverse order of acquisition; the lifecycle ends in Failed, which
\* only a rebuild leaves; and the error reported is the failing
\* Initializer's, whatever the teardown collected.
C8_FailFastTeardown ==
    /\ [](primaryErr # NoErr =>
            /\ state \in {"Building", "Failed"}
            /\ Len(acquired) < Len(Initializers(registry))
            /\ Initializers(registry)[Len(acquired) + 1].name = faults.failInit
            /\ released = SubSeq(Reverse(acquired), 1, Len(released))
            /\ state = "Failed" =>
                  /\ released = Reverse(acquired)
                  /\ reportedErr = Unit("error", "initializer failed", <<faults.failInit>>))
    /\ [][primaryErr # NoErr => (acquired' = acquired \/ state' = "Idle")]_vars
    /\ [][state = "Failed" => state' \in {"Failed", "Idle"}]_vars

C8_Witness ==
    /\ state = "Failed" /\ primaryErr # NoErr
    /\ Len(acquired) = 2 /\ released = Reverse(acquired)
    /\ teardownErrs # <<>>
    /\ reportedErr = Unit("error", "initializer failed", <<faults.failInit>>)
    /\ Len(Initializers(registry)) >= 5

ConnMgrUnit(low, high, grace) ==
    Unit("provide", "libp2p.ConnectionManager", <<low, high, grace>>)

\* C9: online, an empty connection-manager type installs the basic manager
\* with the default low-water mark, high-water mark and grace period, and
\* type "basic" installs it with the configured low-water and high-water
\* marks and the parsed grace period.
C9_WaterMarks ==
    (Assembled /\ curBcfg.Online /\ Errors(registry) = <<>>) =>
        /\ curCfg.Swarm.ConnMgr.Type = "" =>
              ConnMgrUnit(DefaultConnMgrLowWater, DefaultConnMgrHighWater,
                          DefaultConnMgrGracePeriod) \in Units(registry)
        /\ curCfg.Swarm.ConnMgr.Type = "basic" =>
              ConnMgrUnit(curCfg.Swarm.ConnMgr.LowWater, curCfg.Swarm.ConnMgr.HighWater,
                          ParseDuration(curCfg.Swarm.ConnMgr.GracePeriod).d)
                  \in Units(registry)

\* C9 for type "basic" alone.
BasicWaterMarks ==
    (Assembled /\ curBcfg.Online /\ Errors(registry) = <<>>
        /\ curCfg.Swarm.ConnMgr.Type = "basic") =>
        /\ ConnMgrUnit(curCfg.Swarm.ConnMgr.LowWater, curCfg.Swarm.ConnMgr.HighWater,
                       ParseDuration(curCfg.Swarm.ConnMgr.GracePeriod).d)
              \in Units(registry)
        /\ curCfg.Swarm.ConnMgr.LowWater # curCfg.Swarm.ConnMgr.HighWater

\* a step that is a call of IPFS.
IsCallIPFS == state = "Idle" /\ state' = "Building"

\* C10 (as claimed): a call of IPFS whose configuration fails validation
\* leaves the global sharding switch as it was.
C10_FailedBuildKeepsSwitch ==
    [][(IsCallIPFS /\ Errors(registry') # <<>>)
          => UseHAMTSharding' = UseHAMTSharding]_vars

\* C10 (amended): IPFS leaves the switch alone only when bcfg.options yields
\* no configuration; otherwise it sets the switch to the configuration's
\* Experimental.ShardingEnabled before any validation, whether the build
\* then fails or not.
C10_SwitchFollowsConfig ==
    [][IsCallIPFS =>
          UseHAMTSharding' = IF repo.haveCfg THEN curCfg.Experimental.ShardingEnabled
                             ELSE UseHAMTSharding]_vars

C10_Witness ==
    /\ Assembled /\ state = "Failed" /\ Errors(registry) # <<>>
    /\ curCfg.Identity.PeerID = ""
    /\ ~hist.shardingBefore /\ UseHAMTSharding

=============================================================================
